---- MODULE Spec2Model ----
(***************************************************************************)
(* Quantum_WC: a two-qubit classifier script (src/main.py) and a one-qubit *)
(* Streamlit dashboard (src/app.py).                                       *)
(*                                                                         *)
(* Numbers.  Angles (signals, weights) are integers in hundredths of a     *)
(* radian: the slider range -2.0 .. 2.0 is -200 .. 200 and the weight 1.57 *)
(* is 157.  A rotation gate turns by the nearest angle whose half-angle    *)
(* has rational cosine and sine with denominator 5 (HalfAngle), so every   *)
(* gate is an exactly unitary integer matrix over 5 and the state vector   *)
(* is simulated in exact arithmetic: amplitudes are Gaussian integers over *)
(* a tracked denominator.  The quantisation thresholds include pi/2 and    *)
(* 3pi/2, so the sign of cos(angle) is the sign the real gate gives.       *)
(* A circuit result is the exact rational <<num, den>>.  Floating-point    *)
(* rounding of the simulator is outside the model.                         *)
(***************************************************************************)
EXTENDS Integers, Sequences, FiniteSets, TLC

VARIABLES
    \* ---- dashboard (src/app.py): one Streamlit session
    client_name,      \* text_input value
    signal_val,       \* slider value, hundredths
    learned_weight,   \* module global, hundredths
    app_dev,          \* the 1-wire device of the current script run
    button,           \* the value st.sidebar.button returned in the current run
    evals,            \* arguments of the circuit evaluations of the current run
    result,           \* the handler's local `result` (None outside the handler)
    page,             \* elements rendered by the current run, in order
    \* ---- script (src/main.py)
    pc,               \* position in the script
    dev,              \* the 2-wire device (module global)
    X_raw,            \* generate_data's local X of its last call
    X_train, Y_train,
    weights,
    i,                \* loop variable of the training loop
    n_steps,          \* optimizer steps performed so far
    current_cost,
    out,              \* lines written to standard output, in order
    X_test, Y_test,
    preds,
    accuracy,
    \* ---- circuit harness: evaluations of the two circuits on one device each
    fn_call,          \* the last evaluation: number, circuit, arguments, result
    fn_memo,          \* an earlier evaluation, remembered
    fn_shown,         \* what the dashboard's handler renders for fn_call.r
    fn_pred           \* what the script predicts for fn_call.r (0: nothing)

appVars == <<client_name, signal_val, learned_weight, app_dev, button, evals,
             result, page>>
scriptVars == <<pc, dev, X_raw, X_train, Y_train, weights, i, n_steps,
                current_cost, out, X_test, Y_test, preds, accuracy>>
\* what an evaluation on the devices leaves alone
appRest == <<client_name, signal_val, learned_weight, button, evals, result,
             page>>
scriptRest == <<pc, X_raw, X_train, Y_train, weights, i, n_steps, current_cost,
                out, X_test, Y_test, preds, accuracy>>
fnVars == <<fn_call, fn_memo, fn_shown, fn_pred>>
vars == <<appVars, scriptVars, fnVars>>

None == "None"

\* The function f over 1..n as an explicit tuple
Tuple(f) == f \o << >>

\* F(v), with v evaluated once
With(v, F(_)) == CHOOSE y \in {F(x) : x \in {v}} : TRUE

(***************************************************************************)
(* Rotation angles                                                         *)
(***************************************************************************)

\* The twelve integer points (c, s) with c^2 + s^2 = 25, by increasing
\* half-angle: cos and sin of the half-angle, times 5.
RationalRotations ==
    << <<5, 0>>, <<4, 3>>, <<3, 4>>, <<0, 5>>, <<-3, 4>>, <<-4, 3>>,
       <<-5, 0>>, <<-4, -3>>, <<-3, -4>>, <<0, -5>>, <<3, -4>>, <<4, -3>> >>

\* Index of the rational rotation nearest to angle a >= 0 (hundredths of a
\* radian).  The rotations turn by 0, 1.287, 1.855, pi, 4.429, 4.996, 2pi, ...
\* with period 4pi = 12.57; the cuts are the midpoints (157.08 is pi/2).
NearestRotation(a) ==
    LET m == a % 1257
    IN  IF m <= 64 THEN 1
        ELSE IF m <= 157 THEN 2
        ELSE IF m <= 249 THEN 3
        ELSE IF m <= 378 THEN 4
        ELSE IF m <= 471 THEN 5
        ELSE IF m <= 563 THEN 6
        ELSE IF m <= 692 THEN 7
        ELSE IF m <= 785 THEN 8
        ELSE IF m <= 878 THEN 9
        ELSE IF m <= 1006 THEN 10
        ELSE IF m <= 1099 THEN 11
        ELSE IF m <= 1192 THEN 12
        ELSE 1

\* <<5 cos(a/2), 5 sin(a/2)>> of the quantised angle; odd in a.
HalfAngle(a) ==
    IF a >= 0
    THEN RationalRotations[NearestRotation(a)]
    ELSE LET p == RationalRotations[NearestRotation(-a)]
         IN  <<p[1], -p[2]>>

(***************************************************************************)
(* State vectors: amp[k + 1] is the amplitude of basis state k, a complex  *)
(* number <<re, im>> over the denominator den; wire 0 is the most          *)
(* significant bit of k.                                                   *)
(***************************************************************************)

Dim(n) == 2 ^ n

Bit(k, w, n) == (k \div (2 ^ (n - 1 - w))) % 2

Flip(k, w, n) ==
    IF Bit(k, w, n) = 0 THEN k + 2 ^ (n - 1 - w) ELSE k - 2 ^ (n - 1 - w)

CAdd(x, y) == <<x[1] + y[1], x[2] + y[2]>>

CScale(c, x) == <<c * x[1], c * x[2]>>

\* -i * x
CMulNegI(x) == <<x[2], -x[1]>>

\* |0...0> on n wires
ZeroState(n) ==
    [wires |-> n, den |-> 1,
     amp |-> Tuple([k \in 1..Dim(n) |-> IF k = 1 THEN <<1, 0>> ELSE <<0, 0>>])]

\* The device left in the likeliest basis state of its previous execution
DeviceKeepCollapsed(d) ==
    LET n == d.wires
        P(k) == d.amp[k][1] * d.amp[k][1] + d.amp[k][2] * d.amp[k][2]
        top == CHOOSE k \in 1..Dim(n) :
                   \A j \in 1..Dim(n) : P(j) < P(k) \/ (P(j) = P(k) /\ k <= j)
    IN  [wires |-> n, den |-> 1,
         amp |-> Tuple([k \in 1..Dim(n) |-> IF k = top THEN <<1, 0>> ELSE <<0, 0>>])]

\* A QNode execution starts from |0...0>, whatever the device held before.
DeviceReset(d) == ZeroState(d.wires)

\* [[c, -s], [s, c]] / 5 on wire w, for h = <<c, s>>
RotateY(h, w, psi) ==
    LET n == psi.wires
        a(k) == psi.amp[k + 1]
    IN  [wires |-> n, den |-> 5 * psi.den,
         amp |-> Tuple([q \in 1..Dim(n) |->
                    LET k == q - 1
                    IN  IF Bit(k, w, n) = 0
                        THEN CAdd(CScale(h[1], a(k)),
                                  CScale(-h[2], a(Flip(k, w, n))))
                        ELSE CAdd(CScale(h[2], a(Flip(k, w, n))),
                                  CScale(h[1], a(k)))])]

\* [[c, -i s], [-i s, c]] / 5 on wire w, for h = <<c, s>>
RotateX(h, w, psi) ==
    LET n == psi.wires
        a(k) == psi.amp[k + 1]
    IN  [wires |-> n, den |-> 5 * psi.den,
         amp |-> Tuple([q \in 1..Dim(n) |->
                    LET k == q - 1
                    IN  CAdd(CScale(h[1], a(k)),
                             CScale(h[2], CMulNegI(a(Flip(k, w, n)))))])]

\* qml.RY(theta, wires=w)
RY(theta, w, psi) == With(HalfAngle(theta), LAMBDA h : RotateY(h, w, psi))

\* qml.RX(theta, wires=w)
RX(theta, w, psi) == With(HalfAngle(theta), LAMBDA h : RotateX(h, w, psi))

\* CNOT with control and target exchanged
CNOTSwapped(ctl, tgt, psi) ==
    LET n == psi.wires
    IN  [psi EXCEPT !.amp =
            Tuple([q \in 1..Dim(n) |->
                LET k == q - 1
                IN  IF Bit(k, tgt, n) = 1
                    THEN psi.amp[Flip(k, ctl, n) + 1]
                    ELSE psi.amp[q]])]

\* CNOT(wires=[ctl, tgt]): flips tgt where ctl is 1
CNOT(ctl, tgt, psi) ==
    LET n == psi.wires
    IN  [psi EXCEPT !.amp =
            Tuple([q \in 1..Dim(n) |->
                LET k == q - 1
                IN  IF Bit(k, ctl, n) = 1
                    THEN psi.amp[Flip(k, tgt, n) + 1]
                    ELSE psi.amp[q]])]

RECURSIVE SumTo(_, _)
SumTo(f, n) == IF n = 0 THEN 0 ELSE f[n] + SumTo(f, n - 1)

\* +|amplitude|^2 where wire w is 0, -|amplitude|^2 where it is 1
ZTerms(w, psi) ==
    Tuple([q \in 1..Dim(psi.wires) |->
              LET x == psi.amp[q]
                  p == x[1] * x[1] + x[2] * x[2]
              IN  IF Bit(q - 1, w, psi.wires) = 0 THEN p ELSE -p])

\* <psi| Z_w |psi>, numerator over psi.den^2
ZNumerator(w, psi) ==
    With(ZTerms(w, psi), LAMBDA term : SumTo(term, Len(term)))

\* the expectation of the sum of PauliZ over all wires
expval_PauliZ_AllWires(w, state) ==
    With(state,
         LAMBDA psi :
             With(Tuple([v \in 1..psi.wires |-> ZNumerator(v - 1, psi)]),
                  LAMBDA z : <<SumTo(z, psi.wires), psi.den * psi.den>>))

\* expval(PauliZ(w)): sum of +-|amplitude|^2, as the rational <<num, den>>
expval_PauliZ(w, state) ==
    With(state, LAMBDA psi : <<ZNumerator(w, psi), psi.den * psi.den>>)

\* Comparisons and conversions of a result <<num, den>>, den > 0
Positive(r) == r[1] > 0

InUnitInterval(r) == -r[2] <= r[1] /\ r[1] <= r[2]

\* round(float(r), 4), in ten-thousandths (one-wire results: den = 625)
Round4(r) == (r[1] * 10000) \div r[2]

\* r in thousandths, rounded down
Milli(r) == (r[1] * 1000) \div r[2]

(***************************************************************************)
(* The circuits.  A circuit is the sequence of its gates; a QNode runs it  *)
(* on its device and returns the expectation of PauliZ on wire 0 in the    *)
(* final state.                                                            *)
(***************************************************************************)

Gate(name, angle, wires) == [name |-> name, angle |-> angle, wires |-> wires]

ApplyGate(g, psi) ==
    CASE g.name = "RY" -> RY(g.angle, g.wires[1], psi)
      [] g.name = "RX" -> RX(g.angle, g.wires[1], psi)
      [] g.name = "CNOT" -> CNOT(g.wires[1], g.wires[2], psi)

\* The device after the first k gates of ops, started on device d
RECURSIVE Execute(_, _, _)
Execute(d, ops, k) ==
    IF k = 0
    THEN DeviceReset(d)
    ELSE With(Execute(d, ops, k - 1), LAMBDA psi : ApplyGate(ops[k], psi))

\* The device after all of ops, started on device d
Run(d, ops) == With(ops, LAMBDA tape : Execute(d, tape, Len(tape)))

\* src/app.py quantum_brain(signal_strength, weight): lines 16 and 18
quantum_brain_ops(signal_strength, weight) ==
    << Gate("RY", signal_strength, <<0>>),
       Gate("RX", weight, <<0>>) >>

quantum_brain_run(d, signal_strength, weight) ==
    Run(d, quantum_brain_ops(signal_strength, weight))

quantum_brain(d, signal_strength, weight) ==
    expval_PauliZ(0, quantum_brain_run(d, signal_strength, weight))

\* src/main.py qnn_circuit(inputs, weights): lines 11 to 16
qnn_circuit_ops(inputs, w) ==
    << Gate("RY", inputs[1], <<0>>),
       Gate("RY", inputs[1], <<1>>),
       Gate("RX", w[1], <<0>>),
       Gate("RX", w[2], <<1>>),
       Gate("CNOT", 0, <<0, 1>>) >>

qnn_circuit_run(d, inputs, w) ==
    Run(d, qnn_circuit_ops(inputs, w))

qnn_circuit(d, inputs, w) ==
    expval_PauliZ(0, qnn_circuit_run(d, inputs, w))

(***************************************************************************)
(* Dashboard (src/app.py).  Streamlit runs the whole script once per       *)
(* interaction; what a run renders replaces what the previous run showed.  *)
(***************************************************************************)

\* Slider positions tried are 10 * k hundredths, |k| <= SliderReach, and the
\* two positions around pi/2 on either side.
SliderReach == 25

SliderTries ==
    {10 * k : k \in (-SliderReach)..SliderReach} \cup {-158, -157, 157, 158}

ClientNames == {"Device_001", "Device_002", "Device_003"}

SliderMin == -200

SliderMax == 200

SliderDefault == 50

\* a slider that takes any value handed to it
SliderUnclamped(v) == v

\* st.sidebar.slider(label, -2.0, 2.0, 0.5): the widget keeps its value in range
SliderValue(v) ==
    IF v < SliderMin THEN SliderMin ELSE IF v > SliderMax THEN SliderMax ELSE v

\* the weight read from the slider instead of the constant
WeightFromSlider == signal_val

\* learned_weight = 1.57
PretrainedWeight == 157

Element(kind, text, value) == [kind |-> kind, text |-> text, value |-> value]

\* result >= 0
AcceptsZero(r) == r[1] >= 0

\* if result > 0
Accepts(r) == Positive(r)

\* lines 36-41: the verdict and its reason
RenderVerdict(r) ==
    IF Accepts(r)
    THEN << Element("success", "CONNECTION GRANTED", 0),
            Element("info", "Signal quality is above the quantum threshold.", 0) >>
    ELSE << Element("error", "CONNECTION REJECTED", 0),
            Element("warning", "High interference detected. Connection unsafe.", 0) >>

\* lines 31-43: the body of `if st.sidebar.button(...)`, on device d
ProcessConnectionRequest(d, name, sig, w) ==
    LET r == quantum_brain(d, sig, w)
    IN  [evals |-> << <<sig, w>> >>,
         result |-> r,
         dev |-> quantum_brain_run(d, sig, w),
         page |-> << Element("subheader", name, 0) >>
                  \o RenderVerdict(r)
                  \o << Element("metric", "Quantum Confidence Score", Round4(r)) >>]

\* the handler entered on every run
AlwaysProcess(pressed) == TRUE

\* if st.sidebar.button("Process Connection Request"):
ButtonGuard(pressed) == pressed

PageTop ==
    << Element("title", "Quantum-AI Connection Manager", 0),
       Element("write", "intro", 0) >>

PageBottom ==
    << Element("divider", "", 0),
       Element("write", "How it works", 0),
       Element("write", "1. Capture", 0),
       Element("write", "2. Quantum Logic", 0),
       Element("write", "3. Action", 0) >>

\* a run that renders no result leaves the previous page on screen
RenderedStale(old, new) ==
    IF Len(new) = Len(PageTop) + Len(PageBottom) THEN old ELSE new

\* what is on screen after a run: the run's own elements
Rendered(old, new) == new

\* One run of the script, after the widgets took their values for this run.
ScriptRun(pressed) ==
    /\ learned_weight' = PretrainedWeight
    /\ button' = pressed
    /\ IF ButtonGuard(pressed)
       THEN LET h == ProcessConnectionRequest(ZeroState(1), client_name',
                                              signal_val', learned_weight')
            IN  /\ evals' = h.evals
                /\ result' = h.result
                /\ app_dev' = h.dev
                /\ page' = Rendered(page, PageTop \o h.page \o PageBottom)
       ELSE /\ evals' = << >>
            /\ result' = None
            /\ app_dev' = ZeroState(1)
            /\ page' = Rendered(page, PageTop \o PageBottom)
    /\ UNCHANGED <<scriptVars, fnVars>>

InitApp ==
    /\ client_name = "Device_001"
    /\ signal_val = SliderDefault
    /\ learned_weight = PretrainedWeight
    /\ app_dev = ZeroState(1)
    /\ button = FALSE
    /\ evals = << >>
    /\ result = None
    /\ page = PageTop \o PageBottom

\* the user moves the slider
SliderChange(v) ==
    /\ SliderValue(v) # signal_val
    /\ signal_val' = SliderValue(v)
    /\ client_name' = client_name
    /\ ScriptRun(FALSE)

\* the user edits the client name
TextEdit(name) ==
    /\ name # client_name
    /\ client_name' = name
    /\ signal_val' = signal_val
    /\ ScriptRun(FALSE)

\* the user presses "Process Connection Request"
ButtonPress ==
    /\ client_name' = client_name
    /\ signal_val' = signal_val
    /\ ScriptRun(TRUE)


(***************************************************************************)
(* Script (src/main.py), lines 33-49, top to bottom.                       *)
(***************************************************************************)

\* Samples drawn for training and for the test (the script draws 40 and 10).
NTrain == 2

NTest == 1

\* for i in range(20)
Epochs == 20

\* Values the Gaussian noise takes, hundredths
Noise == {-150, 60}

\* Weight vectors the optimizer moves to, hundredths
WeightVecs == {<<200, -150>>, <<-150, 157>>}

Draws(n, S) == [1..n -> S]

\* labels taken from the noisy samples
generate_data_noisy_labels(n_samples, X, noise) ==
    [X |-> X,
     X_noisy |-> Tuple([k \in 1..n_samples |-> <<X[k] + noise[k]>>]),
     Y |-> Tuple([k \in 1..n_samples |-> IF X[k] + noise[k] < 0 THEN -1 ELSE 1])]

\* generate_data(n_samples), for the draws X (of np.random.choice([-1, 1]))
\* and noise (of np.random.normal(0, 0.5)): X_noisy.reshape(-1, 1) and Y
generate_data(n_samples, X, noise) ==
    [X |-> X,
     X_noisy |-> Tuple([k \in 1..n_samples |-> <<X[k] + noise[k]>>]),
     Y |-> Tuple([k \in 1..n_samples |-> IF X[k] < 0 THEN -1 ELSE 1])]

\* the device after the first k evaluations of qnn_circuit over X
RECURSIVE DevAfter(_, _, _, _)
DevAfter(d, w, X, k) ==
    IF k = 0
    THEN d
    ELSE With(DevAfter(d, w, X, k - 1),
              LAMBDA before : qnn_circuit_run(before, X[k], w))

\* [qnn_circuit(x, weights) for x in X]
Predictions(d, w, X) ==
    Tuple([k \in 1..Len(X) |-> qnn_circuit(DevAfter(d, w, X, k - 1), X[k], w)])

\* cost(weights, X, Y): mean squared error, in millionths (predictions are
\* taken in thousandths)
SquaredErrors(p, Y) ==
    Tuple([k \in 1..Len(Y) |->
              (Milli(p[k]) - 1000 * Y[k]) * (Milli(p[k]) - 1000 * Y[k])])

cost(d, w, X, Y) ==
    With(Predictions(d, w, X),
         LAMBDA p : With(SquaredErrors(p, Y),
                         LAMBDA sq : SumTo(sq, Len(X)) \div Len(X)))

\* 1 if qnn_circuit(x, weights) > 0 else -1
Predict(r) == IF Positive(r) THEN 1 ELSE -1

\* np.mean(preds == Y_test) * 100, in hundredths of a percent
Accuracy(p, Y) ==
    LET hit == Tuple([k \in 1..Len(Y) |-> IF p[k] = Y[k] THEN 1 ELSE 0])
    IN  (SumTo(hit, Len(Y)) * 10000) \div Len(Y)

Line(text, epoch) == [text |-> text, epoch |-> epoch]

\* a loop that stops once the cost is small
LoopContinuesUntilConverged(k, c) == k + 1 < Epochs /\ (k < 0 \/ c > 500000)

\* for i in range(20): whether an iteration follows iteration k (-1: none yet)
LoopContinues(k, c) == k + 1 < Epochs

\* if i % 5 == 0
PrintsProgress(k) == k % 5 = 0

InitScript ==
    /\ pc = "generate_train"
    /\ dev = ZeroState(2)
    /\ X_raw = << >>
    /\ X_train = << >>
    /\ Y_train = << >>
    /\ weights = << >>
    /\ i = -1
    /\ n_steps = 0
    /\ current_cost = 0
    /\ out = << >>
    /\ X_test = << >>
    /\ Y_test = << >>
    /\ preds = << >>
    /\ accuracy = -1

\* line 33: X_train, Y_train = generate_data(40)
GenerateTrain(X, noise) ==
    /\ pc = "generate_train"
    /\ LET g == generate_data(NTrain, X, noise)
       IN  /\ X_raw' = g.X
           /\ X_train' = g.X_noisy
           /\ Y_train' = g.Y
    /\ pc' = "init_weights"
    /\ UNCHANGED <<dev, weights, i, n_steps, current_cost, out, X_test, Y_test,
                   preds, accuracy>>
    /\ UNCHANGED <<appVars, fnVars>>

\* lines 34-37: the initial weights, the optimizer, the first line of output
InitWeights ==
    /\ pc = "init_weights"
    /\ weights' = <<10, 10>>
    /\ out' = Append(out, Line("Starting Training...", -1))
    /\ pc' = "train"
    /\ UNCHANGED <<dev, X_raw, X_train, Y_train, i, n_steps, current_cost,
                   X_test, Y_test, preds, accuracy>>
    /\ UNCHANGED <<appVars, fnVars>>

\* lines 38-41: one iteration; the optimizer returns the new weights (any of
\* WeightVecs) and the cost at the old ones
TrainStep(w) ==
    /\ pc = "train"
    /\ LoopContinues(i, current_cost)
    /\ i' = i + 1
    /\ current_cost' = cost(dev, weights, X_train, Y_train)
    /\ dev' = DevAfter(dev, weights, X_train, Len(X_train))
    /\ weights' = w
    /\ n_steps' = n_steps + 1
    /\ out' = IF PrintsProgress(i') THEN Append(out, Line("Epoch", i')) ELSE out
    /\ UNCHANGED <<pc, X_raw, X_train, Y_train, X_test, Y_test, preds, accuracy>>
    /\ UNCHANGED <<appVars, fnVars>>

\* line 44, after the loop
PrintFinalWeights ==
    /\ pc = "train"
    /\ ~LoopContinues(i, current_cost)
    /\ out' = Append(out, Line("Final Learned Weights", -1))
    /\ pc' = "generate_test"
    /\ UNCHANGED <<dev, X_raw, X_train, Y_train, weights, i, n_steps,
                   current_cost, X_test, Y_test, preds, accuracy>>
    /\ UNCHANGED <<appVars, fnVars>>

\* line 47: X_test, Y_test = generate_data(10)
GenerateTest(X, noise) ==
    /\ pc = "generate_test"
    /\ LET g == generate_data(NTest, X, noise)
       IN  /\ X_raw' = g.X
           /\ X_test' = g.X_noisy
           /\ Y_test' = g.Y
    /\ pc' = "predict"
    /\ UNCHANGED <<dev, X_train, Y_train, weights, i, n_steps, current_cost,
                   out, preds, accuracy>>
    /\ UNCHANGED <<appVars, fnVars>>

\* line 48
PredictTest ==
    /\ pc = "predict"
    /\ preds' = With(Predictions(dev, weights, X_test),
                     LAMBDA p : Tuple([k \in 1..Len(X_test) |-> Predict(p[k])]))
    /\ dev' = DevAfter(dev, weights, X_test, Len(X_test))
    /\ pc' = "print_accuracy"
    /\ UNCHANGED <<X_raw, X_train, Y_train, weights, i, n_steps, current_cost,
                   out, X_test, Y_test, accuracy>>
    /\ UNCHANGED <<appVars, fnVars>>

\* line 49, then the script ends
PrintAccuracy ==
    /\ pc = "print_accuracy"
    /\ accuracy' = Accuracy(preds, Y_test)
    /\ out' = Append(out, Line("Test Accuracy", -1))
    /\ pc' = "done"
    /\ UNCHANGED <<dev, X_raw, X_train, Y_train, weights, i, n_steps,
                   current_cost, X_test, Y_test, preds>>
    /\ UNCHANGED <<appVars, fnVars>>

(***************************************************************************)
(* Circuit harness: any sequence of evaluations of one of the circuits on  *)
(* its long-lived device, with the decision rule applied to each result;   *)
(* or the two decision rules applied to given scalars.                     *)
(***************************************************************************)

\* Evaluations per run of the harness
MaxEvals == 3

\* Angles tried are 100 * k hundredths, |k| <= AngleReach, and the two around
\* pi/2
AngleReach == 1

FnAngles == {100 * k : k \in (-AngleReach)..AngleReach} \cup {157, 158}

FnWeights == {157, 300}

\* Scalars handed to the decision rules directly, over 625
FnScalars == {<<n, 625>> : n \in {-625, -49, -1, 0, 1, 49, 625}}

Call(n, circuit, x, w, r, c) ==
    [n |-> n, circuit |-> circuit, x |-> x, w |-> w, r |-> r, c |-> c]

NoCall == Call(0, "none", 0, << >>, <<0, 1>>, 0)

InitFn ==
    /\ fn_call = NoCall
    /\ fn_memo = NoCall
    /\ fn_shown = << >>
    /\ fn_pred = 0

\* quantum_brain(s, w) and the handler's rendering of its result
EvalBrain(s, w) ==
    /\ fn_call.circuit \in {"none", "quantum_brain"}
    /\ fn_call.n < MaxEvals
    /\ LET h == ProcessConnectionRequest(app_dev, "Device_001", s, w)
       IN  /\ fn_call' = Call(fn_call.n + 1, "quantum_brain", s, <<w>>, h.result, 0)
           /\ fn_shown' = h.page
           /\ app_dev' = h.dev
    /\ fn_pred' = 0
    /\ UNCHANGED <<fn_memo, dev, appRest, scriptRest>>

\* qnn_circuit([x], w), the cost of w on the one sample ([x], 1), and the
\* script's prediction
EvalQnn(x, w) ==
    /\ fn_call.circuit \in {"none", "qnn_circuit"}
    /\ fn_call.n < MaxEvals
    /\ LET r == qnn_circuit(dev, <<x>>, w)
       IN  /\ fn_call' = Call(fn_call.n + 1, "qnn_circuit", x, w, r,
                              cost(dev, w, << <<x>> >>, <<1>>))
           /\ fn_pred' = Predict(r)
    /\ dev' = qnn_circuit_run(dev, <<x>>, w)
    /\ fn_shown' = << >>
    /\ UNCHANGED <<fn_memo, app_dev, appRest, scriptRest>>

\* both decision rules on a given scalar
Decide(r) ==
    /\ fn_call.circuit \in {"none", "scalar"}
    /\ fn_call.n < MaxEvals
    /\ fn_call' = Call(fn_call.n + 1, "scalar", 0, << >>, r, 0)
    /\ fn_shown' = RenderVerdict(r)
    /\ fn_pred' = Predict(r)
    /\ UNCHANGED <<fn_memo, dev, app_dev, appRest, scriptRest>>

\* remember the last evaluation
Remember ==
    /\ fn_call.circuit \in {"quantum_brain", "qnn_circuit"}
    /\ fn_memo # fn_call
    /\ fn_memo' = fn_call
    /\ UNCHANGED <<fn_call, fn_shown, fn_pred, dev, app_dev, appRest, scriptRest>>

(***************************************************************************)
(* Specifications                                                          *)
(***************************************************************************)

Init == InitApp /\ InitScript /\ InitFn

NextApp ==
    \/ \E v \in SliderTries : SliderChange(v)
    \/ \E name \in ClientNames : TextEdit(name)
    \/ ButtonPress

NextScript ==
    \/ \E X \in Draws(NTrain, {-100, 100}), noise \in Draws(NTrain, Noise) :
           GenerateTrain(X, noise)
    \/ InitWeights
    \/ \E w \in WeightVecs : TrainStep(w)
    \/ PrintFinalWeights
    \/ \E X \in Draws(NTest, {-100, 100}), noise \in Draws(NTest, Noise) :
           GenerateTest(X, noise)
    \/ PredictTest
    \/ PrintAccuracy

NextFn ==
    \/ \E s \in FnAngles, w \in FnWeights : EvalBrain(s, w)
    \/ \E x \in FnAngles, w \in FnWeights \X FnWeights : EvalQnn(x, w)
    \/ \E r \in FnScalars : Decide(r)
    \/ Remember

\* the dashboard session
Spec == Init /\ [][NextApp]_vars

\* one run of the script
SpecScript == Init /\ [][NextScript]_vars

\* the circuits and decision rules on their own
SpecFn == Init /\ [][NextFn]_vars


(***************************************************************************)
(* Properties                                                              *)
(***************************************************************************)

Shows(pg, text) == \E k \in 1..Len(pg) : pg[k].text = text

Count(pg, kinds) == Cardinality({k \in 1..Len(pg) : pg[k].kind \in kinds})

\* C1: the decision is the sign of the scalar, zero rejected: whenever a
\* verdict is rendered for a result r, CONNECTION GRANTED is shown iff r > 0
\* and CONNECTION REJECTED iff r <= 0; whenever the script predicts for r, the
\* prediction is 1 iff r > 0 and -1 otherwise.
C1_DecisionIsSign ==
    /\ fn_shown # << >> =>
          /\ Shows(fn_shown, "CONNECTION GRANTED") <=> fn_call.r[1] > 0
          /\ Shows(fn_shown, "CONNECTION REJECTED") <=> fn_call.r[1] <= 0
    /\ fn_pred # 0 =>
          /\ fn_pred = 1 <=> fn_call.r[1] > 0
          /\ fn_pred = -1 <=> fn_call.r[1] <= 0

C1_ZeroRejected ==
    /\ fn_call.circuit = "scalar"
    /\ fn_call.r[1] = 0
    /\ Shows(fn_shown, "CONNECTION REJECTED")
    /\ ~Shows(fn_shown, "CONNECTION GRANTED")
    /\ fn_pred = -1

SignMatches(X, X_noisy, Y, n) ==
    /\ Len(X_noisy) = n
    /\ Len(Y) = n
    /\ \A k \in 1..n :
          /\ Y[k] \in {-1, 1}
          /\ X[k] = -100 => Y[k] = -1
          /\ X[k] = 100 => Y[k] = 1

C4_OneEvaluationPerSubmission ==
    /\ button =>
          /\ Len(evals) = 1
          /\ Count(page, {"success", "error"}) = 1
          /\ Count(page, {"metric"}) = 1
    /\ ~button =>
          /\ Len(evals) = 0
          /\ Count(page, {"success", "error"}) = 0
          /\ Count(page, {"metric"}) = 0

C4_Submitted ==
    /\ button
    /\ Len(evals) = 1
    /\ Count(page, {"error"}) = 1
    /\ signal_val # 50

\* C5: learned_weight is 1.57 in every state of the session, and every
\* evaluation is passed 1.57 as its weight.
C5_WeightIsConstant ==
    /\ learned_weight = 157
    /\ \A k \in 1..Len(evals) : evals[k][2] = 157

C5_EvaluatedAfterInteractions ==
    /\ button
    /\ evals = << <<-200, 157>> >>
    /\ client_name = "Device_003"

ExpectedOutput ==
    << Line("Starting Training...", -1),
       Line("Epoch", 0), Line("Epoch", 5), Line("Epoch", 10), Line("Epoch", 15),
       Line("Final Learned Weights", -1),
       Line("Test Accuracy", -1) >>

\* C6: the script never blocks before its end and stops there; its output is
\* always a prefix of: the start line, the progress lines of epochs 0, 5, 10
\* and 15, the final weights, the accuracy; the final weights are printed only
\* after exactly 20 optimizer steps; at the end the whole output is written
\* and the accuracy is that of the NTest test samples.
C6_RunsToCompletion ==
    /\ Len(out) <= Len(ExpectedOutput)
    /\ out = SubSeq(ExpectedOutput, 1, Len(out))
    /\ n_steps <= 20
    /\ Len(out) >= 6 => n_steps = 20
    /\ pc = "done" =>
          /\ out = ExpectedOutput
          /\ Len(X_test) = NTest
          /\ Len(preds) = NTest
          /\ accuracy \in 0..10000
          /\ ~ENABLED NextScript
    /\ pc # "done" => ENABLED NextScript

C6_Finished ==
    /\ pc = "done"
    /\ n_steps = 20
    /\ out = ExpectedOutput
    /\ accuracy = 0

\* C7: every result of quantum_brain and of qnn_circuit lies in [-1, 1].
C7_ResultInUnitInterval ==
    /\ fn_call.circuit \in {"quantum_brain", "qnn_circuit"} =>
          InUnitInterval(fn_call.r)
    /\ fn_memo.circuit \in {"quantum_brain", "qnn_circuit"} =>
          InUnitInterval(fn_memo.r)

C7_ReachesMinusOne ==
    /\ fn_call.circuit = "qnn_circuit"
    /\ fn_call.r[1] = -fn_call.r[2]
    /\ fn_memo.circuit = "qnn_circuit"
    /\ fn_memo.r[1] > 0
    /\ fn_memo.r[1] < fn_memo.r[2]

\* C8: the slider starts at 0.5 and stays in [-2.0, 2.0], and so does every
\* signal passed to quantum_brain.
C8_SignalInSliderRange ==
    /\ signal_val = 50
    /\ [](/\ signal_val \in -200..200
          /\ \A k \in 1..Len(evals) : evals[k][1] \in -200..200)

C8_SubmittedAtTheEdge ==
    /\ button
    /\ signal_val = 200
    /\ evals = << <<200, 157>> >>

VerdictShown == Count(page, {"subheader", "success", "error", "metric"}) > 0

\* C9: whenever a verdict or score is on the page, the run that rendered it
\* was caused by the button and computed it from the slider value and client
\* name the widgets now hold; a run not caused by the button shows none.
C9_VerdictNeverStale ==
    VerdictShown =>
        /\ button
        /\ evals = << <<signal_val, learned_weight>> >>
        /\ result = quantum_brain(ZeroState(1), signal_val, learned_weight)
        /\ \A k \in 1..Len(page) :
              /\ page[k].kind = "subheader" => page[k].text = client_name
              /\ page[k].kind = "success" => result[1] > 0
              /\ page[k].kind = "error" => result[1] <= 0
              /\ page[k].kind = "metric" => page[k].value = Round4(result)

C9_FreshVerdictShown ==
    /\ VerdictShown
    /\ Count(page, {"success"}) = 1
    /\ signal_val = -100
    /\ client_name = "Device_002"

\* C10: two evaluations of qnn_circuit with the same input and the same
\* weights[0] return the same scalar, and the same cost on the same sample,
\* whatever their weights[1].
C10_SecondWeightIrrelevant ==
    (/\ fn_memo.circuit = "qnn_circuit"
     /\ fn_call.circuit = "qnn_circuit"
     /\ fn_memo.x = fn_call.x
     /\ fn_memo.w[1] = fn_call.w[1]) =>
        /\ fn_memo.r = fn_call.r
        /\ fn_memo.c = fn_call.c

C10_SecondWeightDiffers ==
    /\ fn_memo.circuit = "qnn_circuit"
    /\ fn_call.circuit = "qnn_circuit"
    /\ fn_memo.n < fn_call.n
    /\ fn_memo.x = fn_call.x
    /\ fn_memo.w[1] = fn_call.w[1]
    /\ fn_memo.w[2] # fn_call.w[2]
    /\ fn_call.r[1] # 0


====
